---- MODULE Spec2Model ----
(***************************************************************************)
(* A model of CodexAgent (executor/agents/codex/codex_agent.py): the task  *)
(* lifecycle initialize / pre_execute / execute, the progress reports made *)
(* by execute(), the file written by save_code_to_file() and the child     *)
(* process run by execute_generated_code().                                *)
(*                                                                         *)
(* Text is modelled as sequences: a language name is a sequence of         *)
(* one-character strings (so that str.lower() is computed character by     *)
(* character), a message is a sequence of words, a path is a sequence of   *)
(* names with "/" between them.                                            *)
(***************************************************************************)
EXTENDS Integers, Sequences, FiniteSets, TLC

\* ------------------------------------------------------------------ bounds

\* How many calls of execute() are made in all.
MaxRuns == 2

\* ------------------------------------------------------------ Python values

\* Python's None, and a value that is not a str (an int given as language).
\* Both are kept apart from every text: a text holds one-character strings
\* or words, never these tokens.
NoneVal == <<"<None>">>
IntVal == <<"<int>">>

IsStr(v) == v \notin {NoneVal, IntVal}

\* Python truthiness of an optional text: None and "" are falsy.
Truthy(v) == v # NoneVal /\ v # <<>>

\* ------------------------------------------------------------------- texts

python == <<"p", "y", "t", "h", "o", "n">>
javascript == <<"j", "a", "v", "a", "s", "c", "r", "i", "p", "t">>
bash == <<"b", "a", "s", "h">>
shell == <<"s", "h", "e", "l", "l">>
java == <<"j", "a", "v", "a">>
clang == <<"c">>
cpp == <<"c", "p", "p">>
cplusplus == <<"c", "+", "+">>
golang == <<"g", "o">>
rust == <<"r", "u", "s", "t">>
typescript == <<"t", "y", "p", "e", "s", "c", "r", "i", "p", "t">>
html == <<"h", "t", "m", "l">>
css == <<"c", "s", "s">>
sql == <<"s", "q", "l">>
ruby == <<"r", "u", "b", "y">>

\* The same names in other letter cases.
PythonCap == <<"P", "y", "t", "h", "o", "n">>
JavaScriptCap == <<"J", "a", "v", "a", "S", "c", "r", "i", "p", "t">>
BashUpper == <<"B", "A", "S", "H">>
ShellCap == <<"S", "h", "e", "l", "l">>
JavaUpper == <<"J", "A", "V", "A">>
RubyCap == <<"R", "u", "b", "y">>

UpperLetters ==
    <<"A", "B", "C", "D", "E", "F", "G", "H", "I", "J", "K", "L", "M",
      "N", "O", "P", "Q", "R", "S", "T", "U", "V", "W", "X", "Y", "Z">>

LowerLetters ==
    <<"a", "b", "c", "d", "e", "f", "g", "h", "i", "j", "k", "l", "m",
      "n", "o", "p", "q", "r", "s", "t", "u", "v", "w", "x", "y", "z">>

\* One character of str.lower(): an upper-case letter becomes its lower-case
\* letter, anything else is kept.
LowerChar(c) ==
    IF \E i \in 1..26 : UpperLetters[i] = c
    THEN LowerLetters[CHOOSE i \in 1..26 : UpperLetters[i] = c]
    ELSE c

\* str.lower().
Lower(s) == [i \in 1..Len(s) |-> LowerChar(s[i])]

\* Whether the word sequence sub occurs in msg (Python's `sub in msg`).
Contains(msg, sub) ==
    \E i \in 0..(Len(msg) - Len(sub)) :
        \A j \in 1..Len(sub) : msg[i + j] = sub[j]

\* ------------------------------------------------------- the lookup tables

\* The keys and values of the `extensions` dict of get_file_extension().
ExtensionKeys ==
    {python, javascript, java, clang, cpp, cplusplus, golang, rust,
     typescript, html, css, sql, bash, shell}

ExtensionOf(k) ==
    CASE k = python -> <<"p", "y">>
      [] k = javascript -> <<"j", "s">>
      [] k = java -> java
      [] k = clang -> clang
      [] k = cpp -> cpp
      [] k = cplusplus -> cpp
      [] k = golang -> golang
      [] k = rust -> <<"r", "s">>
      [] k = typescript -> <<"t", "s">>
      [] k = html -> html
      [] k = css -> css
      [] k = sql -> sql
      [] k = bash -> <<"s", "h">>
      [] k = shell -> <<"s", "h">>

\* A lookup that forgets lower(): the key is the language as given.
get_file_extension_CaseSensitive(lang) ==
    IF lang \in ExtensionKeys THEN ExtensionOf(lang) ELSE <<"t", "x", "t">>

\* get_file_extension(): extensions.get(self.language.lower(), "txt").
get_file_extension(lang) ==
    IF Lower(lang) \in ExtensionKeys
    THEN ExtensionOf(Lower(lang))
    ELSE <<"t", "x", "t">>

\* The keys and values of the `commands` dict of get_execution_command().
CommandKeys == {python, javascript, bash, shell}

CommandOf(k) ==
    CASE k = python -> <<"python3">>
      [] k = javascript -> <<"node">>
      [] k = bash -> <<"bash">>
      [] k = shell -> <<"bash">>

\* get_execution_command(): commands.get(self.language.lower(), "echo").
get_execution_command(lang) ==
    IF Lower(lang) \in CommandKeys
    THEN CommandOf(Lower(lang))
    ELSE <<"echo">>

\* The languages execute_generated_code() runs a child process for.
ExecutableLanguages == {python, javascript, bash, shell}

\* An allow-list that also holds java.
IsExecutable_WithJava(lang) == Lower(lang) \in ExecutableLanguages \cup {java}

IsExecutable(lang) == Lower(lang) \in ExecutableLanguages

\* ------------------------------------------------------------------- paths

\* A path is a flat sequence of strings, "/" between its components.
Cwd == <<"/", "work">>

\* A working directory given to a task from outside.
SharedDir == <<"/", "srv", "/", "repo">>

\* os.path.join(directory, name).
Join(directory, name) == directory \o <<"/">> \o name

DigitChars == <<"0", "1", "2", "3", "4", "5", "6", "7", "8", "9">>

\* str(n) of a natural number: its decimal digits.
RECURSIVE ToStr(_)
ToStr(n) ==
    IF n < 10
    THEN <<DigitChars[n + 1]>>
    ELSE ToStr(n \div 10) \o <<DigitChars[(n % 10) + 1]>>

\* f"task_{self.task_id}".
TaskDirName(id) == <<"task_">> \o ToStr(id)

\* f"generated_code.{extension}".
FileName(extension) == <<"generated_code", ".">> \o extension

\* ---------------------------------------------------------- code generation

\* simulate_codex_generation(): one of three templates, chosen by the
\* lower-cased language, with the requirements (and, in the third, the
\* language) written into it.
simulate_codex_generation(lang, req) ==
    IF Lower(lang) = python
    THEN <<"#", "Generated", "code", "for:">> \o req
            \o <<"def", "main():", "if", "__name__", "main()">>
    ELSE IF Lower(lang) = javascript
    THEN <<"//", "Generated", "code", "for:">> \o req
            \o <<"function", "main()", "main();">>
    ELSE <<"//", "Generated", "code", "for:">> \o req
            \o <<"//", "Language:">> \o lang \o <<"console.log">>

\* generate_code(): the template, or None when building it raises (a
\* language that is not a str has no lower()).
generate_code(lang, req) ==
    IF IsStr(lang) THEN simulate_codex_generation(lang, req) ELSE NoneVal

\* ------------------------------------------------------- execution results

\* subprocess.run(..., timeout=30): the deadline, in seconds.
Timeout == 30

\* The clock of a waiting subprocess.run advances in steps of this many
\* seconds.
TickSeconds == 10

\* The `result` dict execute_generated_code() starts from. exit_code is <<>>
\* for None and <<n>> for the integer n.
InitialResult ==
    [executed |-> FALSE, output |-> <<>>, error |-> NoneVal, exit_code |-> <<>>]

\* The result of a run that completed: filled from the CompletedProcess.
CompletedResult(process) ==
    [executed |-> TRUE, output |-> process.stdout, error |-> process.stderr,
     exit_code |-> <<process.returncode>>]

\* The result of an unsupported language: only the output is set.
NotSupportedResult(lang) ==
    [InitialResult EXCEPT
        !.output = <<"Code", "execution", "not", "supported", "for",
                     "language:">> \o lang]

\* The result after subprocess.TimeoutExpired: only the error is set.
TimeoutResult ==
    [InitialResult EXCEPT !.error = <<"Code", "execution", "timed", "out">>]

\* The result after any other exception of the run: only the error is set.
FaultResult(e) ==
    [InitialResult EXCEPT !.error = <<"Code", "execution", "failed:">> \o e]

\* What a child process can leave behind when it exits by itself.
ChildOutcomes ==
    {[returncode |-> 0, stdout |-> <<"Executing", "generated", "code...">>,
      stderr |-> <<>>],
     [returncode |-> 1, stdout |-> <<>>, stderr |-> <<"Traceback">>]}

\* A child process slot: no child, or the child of the current run.
NoChild == [state |-> "none", command |-> <<>>, file |-> <<>>]

\* A runner that raises TimeoutExpired and leaves the child running.
KillAndReap_Leak(c) == c

\* What subprocess.run does to the child when the deadline passes: it kills
\* the child and waits for it before raising TimeoutExpired.
KillAndReap(c) == [c EXCEPT !.state = "killed"]

\* ------------------------------------------------------------------- state

\* The agent objects. The second one exists only in SpecPair.
Agents == {"A1", "A2"}

VARIABLES
    task_data,          \* the constructor's argument, kept to compare with
    task_id,            \* self.task_id (set by the base class)
    codex_params,       \* self.model_name, api_key, temperature, max_tokens
    language,           \* self.language
    code_requirements,  \* self.code_requirements
    project_path,       \* self.project_path (set by the base class)
    pc,                 \* where the agent is: "absent", "idle", or a step of execute()
    ret,                \* the last public call and what it returned
    runs,               \* calls of execute() begun so far, over all agents
    trace,              \* the progress reports and finished steps of the current or last call
    generated_code,     \* execute()'s local generated_code
    code_file_path,     \* execute()'s local code_file_path
    execution_result,   \* execute()'s local execution_result
    child,              \* the child process of execute_generated_code()
    clock,              \* seconds subprocess.run has waited for the child
    dirs,               \* the directories that exist
    files,              \* the files that exist, path -> content
    writes              \* which agent opened which path for writing

vars ==
    <<task_data, task_id, codex_params, language, code_requirements,
      project_path, pc, ret, runs, trace, generated_code, code_file_path,
      execution_result, child, clock, dirs, files, writes>>

config == <<task_data, task_id, codex_params, code_requirements>>
locals == <<generated_code, code_file_path, execution_result>>
process == <<child, clock>>
filesystem == <<dirs, files, writes>>

\* ------------------------------------------------------------ construction

\* A key the task_data dict does not have.
AbsentVal == <<"<absent>">>

\* dict.get(key, default).
Get(value, default) == IF value = AbsentVal THEN default ELSE value

\* codex_config.get("max_tokens", 1000) and, in tenths, .get("temperature", 0.3).
DefaultMaxTokens == 1000
DefaultTemperatureTenths == 3

\* CodexAgent.__init__: the fields read from task_data, with their defaults.
ParamsOf(td) ==
    [model_name |-> <<"codex">>,
     api_key |-> Get(td.api_key, <<>>),
     temperature |-> DefaultTemperatureTenths,
     max_tokens |-> DefaultMaxTokens]

LanguageOf(td) == Get(td.language, python)

RequirementsOf(td) == Get(td.code_requirements, <<>>)

\* The languages a task may be constructed with: the table keys, other
\* letter cases, names in no table, the empty string, None and a non-str.
LanguageInputs ==
    {python, javascript, bash, shell, java, clang, cpp, cplusplus, golang,
     rust, typescript, html, css, sql, ruby,
     PythonCap, JavaScriptCap, BashUpper, ShellCap, JavaUpper, RubyCap,
     <<>>, NoneVal, IntVal, AbsentVal}

TaskDataInputs ==
    [task_id : {1},
     language : LanguageInputs,
     code_requirements : {AbsentVal, <<"add", "two", "numbers">>},
     project_path : {NoneVal, SharedDir},
     api_key : {AbsentVal, <<"k", "e", "y">>}]

\* The task data of two tasks that run side by side.
PairDataInputs ==
    [task_id : {1, 2},
     language : {python, java},
     code_requirements : {AbsentVal},
     project_path : {NoneVal, SharedDir},
     api_key : {<<"k", "e", "y">>}]

\* The task data of an agent that was not constructed.
NoTask ==
    [task_id |-> 0, language |-> AbsentVal, code_requirements |-> AbsentVal,
     project_path |-> NoneVal, api_key |-> AbsentVal]

NoReturn == [op |-> "__init__", val |-> <<>>]

\* The state after the agents were constructed from the task data td.
Constructed(td) ==
    /\ task_data = td
    /\ task_id = [a \in Agents |-> td[a].task_id]
    /\ codex_params = [a \in Agents |-> ParamsOf(td[a])]
    /\ language = [a \in Agents |-> LanguageOf(td[a])]
    /\ code_requirements = [a \in Agents |-> RequirementsOf(td[a])]
    /\ project_path = [a \in Agents |-> td[a].project_path]
    /\ pc = [a \in Agents |-> IF td[a] = NoTask THEN "absent" ELSE "idle"]
    /\ ret = [a \in Agents |-> NoReturn]
    /\ runs = 0
    /\ trace = [a \in Agents |-> <<>>]
    /\ generated_code = [a \in Agents |-> NoneVal]
    /\ code_file_path = [a \in Agents |-> NoneVal]
    /\ execution_result = [a \in Agents |-> InitialResult]
    /\ child = [a \in Agents |-> NoChild]
    /\ clock = [a \in Agents |-> 0]
    /\ dirs = {Cwd}
    /\ files = <<>>
    /\ writes = {}

\* One agent.
Init ==
    \E td \in TaskDataInputs :
        Constructed([a \in Agents |-> IF a = "A1" THEN td ELSE NoTask])

\* Two agents with distinct task ids.
InitPair ==
    \E td \in [Agents -> PairDataInputs] :
        /\ td["A1"].task_id = 1
        /\ td["A2"].task_id = 2
        /\ Constructed(td)

\* ------------------------------------------------------- progress reports

\* One call of report_progress(percent, status, message, result), and
\* whether the sink returned (ok) or raised. result is <<>> for no payload
\* and <<payload>> for one.
ReportEntry(percent, status, message, result, ok) ==
    [kind |-> "report", percent |-> percent, status |-> status,
     message |-> message, result |-> result, ok |-> ok]

\* A step of execute() that finished: "save" or "run".
StepEntry(name) ==
    [kind |-> "step", percent |-> 0, status |-> name, message |-> <<>>,
     result |-> <<>>, ok |-> TRUE]

\* What the progress sink raises when it fails.
SinkFault == <<"progress", "sink", "unavailable">>

\* Agent.report_progress (base class): the call is made, and the sink
\* either returns or raises.
report_progress(a, percent, status, message, result, ok) ==
    trace' = [trace EXCEPT
                 ![a] = Append(@, ReportEntry(percent, status, message, result, ok))]

\* The payload of the 100% report.
CompletedPayload(a) ==
    [generated_code |-> generated_code[a],
     code_file_path |-> code_file_path[a],
     execution_result |-> execution_result[a]]

\* ----------------------------------------------------------------- returns

SUCCESS == <<"SUCCESS">>
FAILED == <<"FAILED">>
\* The call did not return: an exception left it.
RAISED == <<"RAISED">>

\* A public call returns val (or raises) and the agent is idle again.
Return(a, op, val) ==
    /\ pc' = [pc EXCEPT ![a] = "idle"]
    /\ ret' = [ret EXCEPT ![a] = [op |-> op, val |-> val]]

\* execute() returns: its locals go out of scope.
ReturnFromExecute(a, val) ==
    /\ Return(a, "execute", val)
    /\ generated_code' = [generated_code EXCEPT ![a] = NoneVal]
    /\ code_file_path' = [code_file_path EXCEPT ![a] = NoneVal]
    /\ execution_result' = [execution_result EXCEPT ![a] = InitialResult]

\* A public call other than execute() begins: what is kept of the call
\* before it (its reports, its reaped child) is dropped.
NewCall(a) ==
    /\ trace' = [trace EXCEPT ![a] = <<>>]
    /\ child' = [child EXCEPT ![a] = NoChild]
    /\ clock' = [clock EXCEPT ![a] = 0]

\* execute() goes on to its next step.
Goto(a, step) ==
    /\ pc' = [pc EXCEPT ![a] = step]
    /\ UNCHANGED ret

\* ------------------------------------------------ initialize, pre_execute

\* An initialize() that sets "python" whatever the language was.
Initialize_Always(a) ==
    /\ pc[a] = "idle"
    /\ language' = [language EXCEPT ![a] = python]
    /\ Return(a, "initialize", SUCCESS)
    /\ NewCall(a)
    /\ UNCHANGED <<config, project_path, runs, locals, filesystem>>

\* initialize(): a missing language becomes "python"; always SUCCESS.
Initialize(a) ==
    /\ pc[a] = "idle"
    /\ language' = [language EXCEPT
                       ![a] = IF Truthy(language[a]) THEN @ ELSE python]
    /\ Return(a, "initialize", SUCCESS)
    /\ NewCall(a)
    /\ UNCHANGED <<config, project_path, runs, locals, filesystem>>

\* pre_execute(): download_code(), then os.makedirs(project_path) when a
\* project path is set. Either may raise, and then the result is FAILED.
PreExecute(a) ==
    /\ pc[a] = "idle"
    /\ \E downloaded \in BOOLEAN, made \in BOOLEAN :
        LET mkdir == downloaded /\ Truthy(project_path[a]) IN
        /\ dirs' = IF mkdir /\ made THEN dirs \cup {project_path[a]} ELSE dirs
        /\ Return(a, "pre_execute",
                  IF downloaded /\ (mkdir => made) THEN SUCCESS ELSE FAILED)
    /\ NewCall(a)
    /\ UNCHANGED <<config, language, project_path, runs, locals, files, writes>>

\* A direct call of get_file_extension(): lower() of a non-str raises.
GetFileExtension(a) ==
    /\ pc[a] = "idle"
    /\ Return(a, "get_file_extension",
              IF IsStr(language[a]) THEN get_file_extension(language[a])
              ELSE RAISED)
    /\ NewCall(a)
    /\ UNCHANGED <<config, language, project_path, runs, locals, filesystem>>

\* A direct call of get_execution_command().
GetExecutionCommand(a) ==
    /\ pc[a] = "idle"
    /\ Return(a, "get_execution_command",
              IF IsStr(language[a]) THEN get_execution_command(language[a])
              ELSE RAISED)
    /\ NewCall(a)
    /\ UNCHANGED <<config, language, project_path, runs, locals, filesystem>>

\* ----------------------------------------------------------------- execute

\* execute() is called: nothing of an earlier call is left.
ExecuteStart(a) ==
    /\ pc[a] = "idle"
    /\ runs < MaxRuns
    /\ runs' = runs + 1
    /\ pc' = [pc EXCEPT ![a] = "report10"]
    /\ ret' = [ret EXCEPT ![a] = [op |-> "execute", val |-> <<>>]]
    /\ trace' = [trace EXCEPT ![a] = <<>>]
    /\ child' = [child EXCEPT ![a] = NoChild]
    /\ clock' = [clock EXCEPT ![a] = 0]
    /\ UNCHANGED <<config, language, project_path, locals, filesystem>>

\* report_progress(10, "generating_code", ...).
Report10(a) ==
    /\ pc[a] = "report10"
    /\ \E ok \in BOOLEAN :
        /\ report_progress(a, 10, "generating_code",
                           <<"Starting", "code", "generation", "with", "Codex">>,
                           <<>>, ok)
        /\ Goto(a, IF ok THEN "generate" ELSE "except")
    /\ UNCHANGED <<config, language, project_path, runs, locals, process,
                   filesystem>>

\* An execute() that does not look at what generate_code() returned.
GenerateCode_Unchecked(a) ==
    /\ pc[a] = "generate"
    /\ generated_code' =
           [generated_code EXCEPT
               ![a] = generate_code(language[a], code_requirements[a])]
    /\ Goto(a, "report50")
    /\ UNCHANGED <<config, language, project_path, runs, trace, process,
                   filesystem, code_file_path, execution_result>>

\* generated_code = self.generate_code(), and the return of FAILED when it
\* is empty or None.
GenerateCode(a) ==
    /\ pc[a] = "generate"
    /\ LET code == generate_code(language[a], code_requirements[a]) IN
        IF Truthy(code)
        THEN /\ generated_code' = [generated_code EXCEPT ![a] = code]
             /\ Goto(a, "report50")
             /\ UNCHANGED <<code_file_path, execution_result>>
        ELSE ReturnFromExecute(a, FAILED)
    /\ UNCHANGED <<config, language, project_path, runs, trace, process,
                   filesystem>>

\* An execute() that goes on to the save without its 50% report.
Report50_Skipped(a) ==
    /\ pc[a] = "report50"
    /\ Goto(a, "save")
    /\ UNCHANGED <<config, language, project_path, runs, trace, locals,
                   process, filesystem>>

\* report_progress(50, "code_generated", ...).
Report50(a) ==
    /\ pc[a] = "report50"
    /\ \E ok \in BOOLEAN :
        /\ report_progress(a, 50, "code_generated",
                           <<"Code", "generated", "successfully">>, <<>>, ok)
        /\ Goto(a, IF ok THEN "save" ELSE "except")
    /\ UNCHANGED <<config, language, project_path, runs, locals, process,
                   filesystem>>

\* A default project path that leaves the task id out.
DefaultProjectPath_NoId(id) == Join(Cwd, <<"task">>)

\* os.path.join(os.getcwd(), f"task_{self.task_id}").
DefaultProjectPath(id) == Join(Cwd, TaskDirName(id))

\* The project path save_code_to_file() writes under: the one the agent
\* has, or the default when it has none.
EffectiveProjectPath(a) ==
    IF Truthy(project_path[a])
    THEN project_path[a]
    ELSE DefaultProjectPath(task_id[a])

\* os.path.join(self.project_path, f"generated_code.{extension}").
CodeFilePath(directory, lang) ==
    Join(directory, FileName(get_file_extension(lang)))

\* code_file_path = self.save_code_to_file(generated_code), and the return
\* of FAILED when it is None. A missing project path is set (before
\* os.makedirs runs); os.makedirs, open and write may each raise, open
\* raises when the directory does not exist, and open truncates the file
\* before write can fail.
SaveCodeToFile(a) ==
    /\ pc[a] = "save"
    /\ \E made \in BOOLEAN, io \in {"ok", "open_fails", "write_fails"} :
        LET missing == ~Truthy(project_path[a])
            directory == EffectiveProjectPath(a)
            mkdirOk == missing => made
            dirs1 == IF missing /\ made THEN dirs \cup {directory} ELSE dirs
            path == CodeFilePath(directory, language[a])
            opened == mkdirOk /\ directory \in dirs1 /\ io # "open_fails"
            written == opened /\ io = "ok"
        IN
        /\ project_path' = [project_path EXCEPT ![a] = directory]
        /\ dirs' = dirs1
        /\ files' = IF opened
                    THEN (path :> (IF written THEN generated_code[a] ELSE <<>>))
                             @@ files
                    ELSE files
        /\ writes' = IF opened THEN writes \cup {<<a, path>>} ELSE writes
        /\ IF written
           THEN /\ code_file_path' = [code_file_path EXCEPT ![a] = path]
                /\ trace' = [trace EXCEPT ![a] = Append(@, StepEntry("save"))]
                /\ Goto(a, "report70")
                /\ UNCHANGED <<generated_code, execution_result>>
           ELSE /\ ReturnFromExecute(a, FAILED)
                /\ UNCHANGED trace
    /\ UNCHANGED <<config, language, runs, process>>

\* report_progress(70, "code_saved", ...).
Report70(a) ==
    /\ pc[a] = "report70"
    /\ \E ok \in BOOLEAN :
        /\ report_progress(a, 70, "code_saved",
                           <<"Code", "saved", "to">> \o code_file_path[a],
                           <<>>, ok)
        /\ Goto(a, IF ok THEN "run" ELSE "except")
    /\ UNCHANGED <<config, language, project_path, runs, locals, process,
                   filesystem>>

\* execute_generated_code() up to the launch of the child: an unsupported
\* language gets its informational result at once; for a supported one
\* subprocess.run starts [command, file], or fails to (OSError) and the
\* fault is recorded in the result.
RunStart(a) ==
    /\ pc[a] = "run"
    /\ IF IsExecutable(language[a])
       THEN \E launched \in BOOLEAN :
            IF launched
            THEN /\ child' = [child EXCEPT
                        ![a] = [state |-> "running",
                                command |-> get_execution_command(language[a]),
                                file |-> code_file_path[a]]]
                 /\ clock' = [clock EXCEPT ![a] = 0]
                 /\ Goto(a, "wait")
                 /\ UNCHANGED <<execution_result, trace>>
            ELSE /\ execution_result' =
                        [execution_result EXCEPT ![a] = FaultResult(<<"OSError">>)]
                 /\ trace' = [trace EXCEPT ![a] = Append(@, StepEntry("run"))]
                 /\ Goto(a, "report100")
                 /\ UNCHANGED process
       ELSE /\ execution_result' =
                   [execution_result EXCEPT ![a] = NotSupportedResult(language[a])]
            /\ trace' = [trace EXCEPT ![a] = Append(@, StepEntry("run"))]
            /\ Goto(a, "report100")
            /\ UNCHANGED process
    /\ UNCHANGED <<config, language, project_path, runs, generated_code,
                   code_file_path, filesystem>>

\* subprocess.run waits and the child is still running before the deadline.
Tick(a) ==
    /\ pc[a] = "wait"
    /\ clock[a] < Timeout
    /\ clock' = [clock EXCEPT ![a] = @ + TickSeconds]
    /\ UNCHANGED <<config, language, project_path, pc, ret, runs, trace,
                   locals, child, filesystem>>

\* The child exits before the deadline: subprocess.run returns the
\* CompletedProcess and the result is filled from it.
ChildExit(a) ==
    /\ pc[a] = "wait"
    /\ clock[a] < Timeout
    /\ \E completed \in ChildOutcomes :
        /\ child' = [child EXCEPT ![a].state = "exited"]
        /\ execution_result' =
               [execution_result EXCEPT ![a] = CompletedResult(completed)]
    /\ trace' = [trace EXCEPT ![a] = Append(@, StepEntry("run"))]
    /\ Goto(a, "report100")
    /\ UNCHANGED <<config, language, project_path, runs, generated_code,
                   code_file_path, clock, filesystem>>

\* A run step that does not catch TimeoutExpired: it reaches execute()'s
\* handler.
ChildTimeout_Aborts(a) ==
    /\ pc[a] = "wait"
    /\ clock[a] >= Timeout
    /\ child' = [child EXCEPT ![a] = KillAndReap(@)]
    /\ Goto(a, "except")
    /\ UNCHANGED <<config, language, project_path, runs, trace, locals,
                   clock, filesystem>>

\* The deadline passes: subprocess.run kills the child, waits for it and
\* raises TimeoutExpired, which execute_generated_code() records.
ChildTimeout(a) ==
    /\ pc[a] = "wait"
    /\ clock[a] >= Timeout
    /\ child' = [child EXCEPT ![a] = KillAndReap(@)]
    /\ execution_result' = [execution_result EXCEPT ![a] = TimeoutResult]
    /\ trace' = [trace EXCEPT ![a] = Append(@, StepEntry("run"))]
    /\ Goto(a, "report100")
    /\ UNCHANGED <<config, language, project_path, runs, generated_code,
                   code_file_path, clock, filesystem>>

\* report_progress(100, "completed", ..., payload) and the return of SUCCESS.
Report100(a) ==
    /\ pc[a] = "report100"
    /\ \E ok \in BOOLEAN :
        /\ report_progress(a, 100, "completed",
                           <<"Codex", "execution", "completed">>,
                           <<CompletedPayload(a)>>, ok)
        /\ IF ok
           THEN ReturnFromExecute(a, SUCCESS)
           ELSE Goto(a, "except") /\ UNCHANGED locals
    /\ UNCHANGED <<config, language, project_path, runs, process, filesystem>>

\* A handler that returns FAILED without its report.
ExecuteHandler_Silent(a) ==
    /\ pc[a] = "except"
    /\ ReturnFromExecute(a, FAILED)
    /\ UNCHANGED <<config, language, project_path, runs, trace, process,
                   filesystem>>

\* except Exception: report_progress(0, "failed", error_msg) and the return
\* of FAILED. A fault of this report is handled by nothing.
ExecuteHandler(a) ==
    /\ pc[a] = "except"
    /\ \E ok \in BOOLEAN :
        /\ report_progress(a, 0, "failed",
                           <<"execute", "failed:">> \o SinkFault, <<>>, ok)
        /\ ReturnFromExecute(a, IF ok THEN FAILED ELSE RAISED)
    /\ UNCHANGED <<config, language, project_path, runs, process, filesystem>>

\* ----------------------------------------------------------- specification

Next ==
    \/ \E a \in Agents : Initialize(a)
    \/ \E a \in Agents : PreExecute(a)
    \/ \E a \in Agents : GetFileExtension(a)
    \/ \E a \in Agents : GetExecutionCommand(a)
    \/ \E a \in Agents : ExecuteStart(a)
    \/ \E a \in Agents : Report10(a)
    \/ \E a \in Agents : GenerateCode(a)
    \/ \E a \in Agents : Report50(a)
    \/ \E a \in Agents : SaveCodeToFile(a)
    \/ \E a \in Agents : Report70(a)
    \/ \E a \in Agents : RunStart(a)
    \/ \E a \in Agents : Tick(a)
    \/ \E a \in Agents : ChildExit(a)
    \/ \E a \in Agents : ChildTimeout(a)
    \/ \E a \in Agents : Report100(a)
    \/ \E a \in Agents : ExecuteHandler(a)

\* One agent.
Spec == Init /\ [][Next]_vars

\* Two agents, their steps interleaved.
SpecPair == InitPair /\ [][Next]_vars

\* subprocess.run's wait makes progress: the clock advances while the child
\* runs, and the deadline is acted on when it has passed.
Fairness ==
    \A a \in Agents :
        /\ WF_vars(Tick(a))
        /\ WF_vars(ChildTimeout(a))

\* One agent, with the progress of the wait.
LiveSpec == Spec /\ Fairness

\* ------------------------------------------------ vocabulary of the claims

\* The progress reports of a trace, in order.
Reports(t) == SelectSeq(t, LAMBDA e : e.kind = "report")

\* The finished steps of a trace, in order.
Steps(t) == SelectSeq(t, LAMBDA e : e.kind = "step")

\* execute() was the last call of agent a and it has ended with val.
Returned(a, val) ==
    /\ pc[a] = "idle"
    /\ ret[a] = [op |-> "execute", val |-> val]

\* execute() was the last call of agent a and it has ended, somehow.
Ended(a) == pc[a] = "idle" /\ ret[a].op = "execute"

\* Some report of the trace raised.
Faulted(t) == \E i \in 1..Len(t) : t[i].kind = "report" /\ ~t[i].ok

\* The trace holds a report with this percent.
HasReport(t, percent) ==
    \E i \in 1..Len(t) : t[i].kind = "report" /\ t[i].percent = percent

\* The number of reports with this percent and this tag.
CountReports(t, percent, status) ==
    Cardinality({i \in 1..Len(t) :
        t[i].kind = "report" /\ t[i].percent = percent /\ t[i].status = status})

\* The spellings, among the languages tasks are constructed with, of the
\* four languages that are run.
PythonNames == {python, PythonCap}
JavascriptNames == {javascript, JavaScriptCap}
BashNames == {bash, BashUpper}
ShellNames == {shell, ShellCap}
AllowListNames == PythonNames \cup JavascriptNames \cup BashNames \cup ShellNames

\* ----------------------------------------------------------------------- C1

\* C1: every execute() that returns SUCCESS has made exactly the reports
\* (10, generating_code), (50, code_generated), (70, code_saved),
\* (100, completed), in this order, each without a fault, and the 100%
\* report comes after the save step and the run step have finished.
C1_SuccessReportsInOrder ==
    \A a \in Agents :
        Returned(a, SUCCESS) =>
            LET t == trace[a]
                r == Reports(t)
            IN
            /\ Len(r) = 4
            /\ <<r[1].percent, r[1].status>> = <<10, "generating_code">>
            /\ <<r[2].percent, r[2].status>> = <<50, "code_generated">>
            /\ <<r[3].percent, r[3].status>> = <<70, "code_saved">>
            /\ <<r[4].percent, r[4].status>> = <<100, "completed">>
            /\ \A i \in 1..4 : r[i].ok
            /\ Len(t) = 6
            /\ t[3] = StepEntry("save")
            /\ t[5] = StepEntry("run")
            /\ t[6].kind = "report" /\ t[6].percent = 100

C1_Witness ==
    \E a \in Agents : Returned(a, SUCCESS) /\ HasReport(trace[a], 100)

\* ----------------------------------------------------------------------- C2

\* C2, as claimed: every execute() that returns FAILED has made exactly one
\* report (0, failed) and no report with percent 100.
C2_FailedAlwaysReportsZero ==
    \A a \in Agents :
        Returned(a, FAILED) =>
            /\ CountReports(trace[a], 0, "failed") = 1
            /\ ~HasReport(trace[a], 100)

\* C2, amended: an execute() that returns FAILED because a step raised has
\* made exactly one report (0, failed), as its last report, and a 100%
\* report only if that is the report that raised; an execute() that returns
\* FAILED with no step having raised (no code generated, or the save
\* failed) has made no 0% report and no 100% report.
C2_FailedReportsZeroOnFault ==
    \A a \in Agents :
        Returned(a, FAILED) =>
            LET r == Reports(trace[a]) IN
            IF Faulted(trace[a])
            THEN /\ CountReports(trace[a], 0, "failed") = 1
                 /\ r[Len(r)].percent = 0 /\ r[Len(r)].ok
                 /\ \A i \in 1..Len(r) : r[i].percent = 100 => ~r[i].ok
            ELSE /\ ~HasReport(trace[a], 0)
                 /\ ~HasReport(trace[a], 100)

C2_Witness ==
    \E a \in Agents :
        /\ Returned(a, FAILED)
        /\ Faulted(trace[a])
        /\ HasReport(trace[a], 0)
        /\ HasReport(trace[a], 70)

\* ----------------------------------------------------------------------- C3

\* C3: when code generation gives an empty text or None, the call goes no
\* further than the generation step: no 50%, 70% or 100% report, no save
\* step, no run step, no child process, no file opened for writing by this
\* agent, and it returns FAILED.
C3_NoCodeNoFile ==
    \A a \in Agents :
        (ret[a].op = "execute"
            /\ ~Truthy(generate_code(language[a], code_requirements[a]))) =>
            /\ pc[a] \in {"report10", "generate", "except", "idle"}
            /\ ~HasReport(trace[a], 50)
            /\ ~HasReport(trace[a], 70)
            /\ ~HasReport(trace[a], 100)
            /\ Steps(trace[a]) = <<>>
            /\ child[a] = NoChild
            /\ \A w \in writes : w[1] # a
            /\ (pc[a] = "idle" /\ ~Faulted(trace[a])) => ret[a].val = FAILED

C3_Witness ==
    \E a \in Agents :
        /\ Returned(a, FAILED)
        /\ ~Truthy(generate_code(language[a], code_requirements[a]))
        /\ HasReport(trace[a], 10)
        /\ ~Faulted(trace[a])

\* ----------------------------------------------------------------------- C4

\* The results execute_generated_code() can hand over, by what became of
\* the child: killed at the deadline, exited by itself, or never started
\* (unsupported language, or a launch fault).
RunResultFits(result, c) ==
    CASE c.state = "killed" ->
            /\ ~result.executed
            /\ Contains(result.error, <<"timed", "out">>)
      [] c.state = "exited" ->
            /\ result.executed
            /\ \E o \in ChildOutcomes : result.exit_code = <<o.returncode>>
      [] OTHER ->
            /\ ~result.executed
            /\ \/ Contains(result.output, <<"not", "supported">>)
               \/ Contains(result.error, <<"execution", "failed:">>)

\* The call ended with the 100% "completed" report as its last report,
\* carrying an execution result that fits what became of the child.
CompletedWithResult(a) ==
    LET t == trace[a]
        last == t[Len(t)]
    IN
    /\ Len(t) > 0
    /\ last.kind = "report" /\ last.percent = 100 /\ last.status = "completed"
    /\ Len(last.result) = 1
    /\ RunResultFits(last.result[1].execution_result, child[a])

ReturnedTimeout(a) ==
    /\ pc[a] = "report100"
    /\ execution_result[a].executed = FALSE
    /\ Contains(execution_result[a].error, <<"timed", "out">>)
    /\ execution_result[a].exit_code = <<>>
    /\ child[a].state # "running"

\* C5: when the child is still running at the 30-second deadline, the call
\* of execute_generated_code() eventually returns, with executed false, an
\* error that contains "timed out" and no exit code, and with no child of
\* it still running; and a child is running only while the call waits.
C5_TimeoutReturnsAndKills ==
    /\ \A a \in Agents :
        (pc[a] = "wait" /\ clock[a] >= Timeout) ~> ReturnedTimeout(a)
    /\ [](\A a \in Agents : child[a].state = "running" => pc[a] = "wait")

C5_Witness ==
    \E a \in Agents : ReturnedTimeout(a) /\ child[a].state = "killed"

\* ----------------------------------------------------------------------- C6

\* The table of the claim: extension and command of the four languages.
ClaimedExtension(lang) ==
    CASE lang \in PythonNames -> <<"p", "y">>
      [] lang \in JavascriptNames -> <<"j", "s">>
      [] lang \in BashNames \cup ShellNames -> <<"s", "h">>
      [] OTHER -> <<"t", "x", "t">>

ClaimedCommand(lang) ==
    CASE lang \in PythonNames -> <<"python3">>
      [] lang \in JavascriptNames -> <<"node">>
      [] lang \in BashNames \cup ShellNames -> <<"bash">>
      [] OTHER -> <<"echo">>

\* The extensions of the ten other names the code's table holds.
OtherExtension(lang) ==
    CASE lang \in {java, JavaUpper} -> <<"j", "a", "v", "a">>
      [] lang = clang -> <<"c">>
      [] lang \in {cpp, cplusplus} -> <<"c", "p", "p">>
      [] lang = golang -> <<"g", "o">>
      [] lang = rust -> <<"r", "s">>
      [] lang = typescript -> <<"t", "s">>
      [] lang = html -> <<"h", "t", "m", "l">>
      [] lang = css -> <<"c", "s", "s">>
      [] lang = sql -> <<"s", "q", "l">>
      [] OTHER -> ClaimedExtension(lang)

\* C6, as claimed: for every string the lookups return what the table of
\* the four languages gives, in any letter case, and "txt" and "echo" for
\* every other string.
C6_LookupsMatchFourLanguageTable ==
    \A a \in Agents :
        /\ (pc[a] = "idle" /\ ret[a].op = "get_file_extension" /\ IsStr(language[a]))
              => ret[a].val = ClaimedExtension(language[a])
        /\ (pc[a] = "idle" /\ ret[a].op = "get_execution_command" /\ IsStr(language[a]))
              => ret[a].val = ClaimedCommand(language[a])

\* C6, amended: both lookups return a value for every string; for python,
\* javascript, bash and shell, in any letter case, they return py/python3,
\* js/node, sh/bash and sh/bash; for every other string the command is
\* "echo"; the extension is java, c, cpp, cpp, go, rs, ts, html, css, sql
\* for java, c, cpp, c++, go, rust, typescript, html, css, sql (in any
\* letter case) and "txt" for every string besides these fourteen.
C6_LookupsMatchTables ==
    \A a \in Agents :
        /\ (pc[a] = "idle" /\ ret[a].op = "get_file_extension" /\ IsStr(language[a]))
              => ret[a].val = OtherExtension(language[a])
        /\ (pc[a] = "idle" /\ ret[a].op = "get_execution_command" /\ IsStr(language[a]))
              => ret[a].val = ClaimedCommand(language[a])

C6_Witness ==
    \E a \in Agents :
        /\ pc[a] = "idle"
        /\ ret[a] = [op |-> "get_file_extension", val |-> <<"s", "h">>]
        /\ language[a] = BashUpper

\* ----------------------------------------------------------------------- C7

\* C7: for a language outside the allow-list, in any letter case, the run
\* step starts no child and its result has executed false, an output that
\* contains "not supported", no error and no exit code; a child is started
\* only for a language of the allow-list.
C7_UnsupportedLanguageNotRun ==
    \A a \in Agents :
        /\ child[a].state # "none" => language[a] \in AllowListNames
        /\ (pc[a] = "report100" /\ language[a] \notin AllowListNames) =>
              /\ child[a] = NoChild
              /\ execution_result[a].executed = FALSE
              /\ Contains(execution_result[a].output, <<"not", "supported">>)
              /\ execution_result[a].error = NoneVal
              /\ execution_result[a].exit_code = <<>>

C7_Witness ==
    \E a \in Agents :
        /\ pc[a] = "report100"
        /\ language[a] = JavaUpper
        /\ Contains(execution_result[a].output, <<"not", "supported">>)

\* ----------------------------------------------------------------------- C8

UnassignedFieldsKept(a) ==
    /\ task_id[a] = task_data[a].task_id
    /\ code_requirements[a] = RequirementsOf(task_data[a])
    /\ codex_params[a] = ParamsOf(task_data[a])

\* C9, as claimed: task id, language, requirements, model parameters and
\* working directory always are what the agent was constructed with.
C9_ConfigurationNeverChanges ==
    \A a \in Agents :
        /\ UnassignedFieldsKept(a)
        /\ language[a] = LanguageOf(task_data[a])
        /\ project_path[a] = task_data[a].project_path

\* C9, amended: task id, requirements and model parameters always are what
\* the agent was constructed with; a language or a working directory that
\* was given is never changed; a language that was empty or None is
\* replaced by "python" (by initialize) and by nothing else, and a working
\* directory that was empty or None is replaced by <cwd>/task_<task id>
\* (by the save step) and by nothing else.
C9_OnlyMissingFieldsAreFilled ==
    \A a \in Agents :
        /\ UnassignedFieldsKept(a)
        /\ \/ language[a] = LanguageOf(task_data[a])
           \/ ~Truthy(LanguageOf(task_data[a])) /\ language[a] = python
        /\ \/ project_path[a] = task_data[a].project_path
           \/ /\ ~Truthy(task_data[a].project_path)
              /\ project_path[a] = Cwd \o <<"/", "task_">> \o ToStr(task_data[a].task_id)

C9_Witness ==
    \E a \in Agents :
        /\ task_data[a].language = NoneVal
        /\ language[a] = python
        /\ task_data[a].project_path = NoneVal
        /\ project_path[a] # NoneVal

\* ---------------------------------------------------------------------- C10

\* C10, as claimed: execute() always ends by returning SUCCESS or FAILED;
\* no fault leaves it.
C10_ExecuteNeverRaises ==
    \A a \in Agents : Ended(a) => ret[a].val \in {SUCCESS, FAILED}

====
